---- MODULE Spec2Model ----
(***************************************************************************)
(* Flake resolution and locking engine of src/libexpr/primops/flake.cc:    *)
(* registry lookup (lookupFlake), fetch dispatch (fetchFlake), the flake   *)
(* loader (getFlake, getNonFlake), the dependency resolver (resolveFlake), *)
(* the lock file codec (readLockFile, writeLockFile) and the value         *)
(* projection (makeFlakeValue).                                            *)
(***************************************************************************)
EXTENDS Integers, Sequences, FiniteSets, TLC

(***************************************************************************)
(* Bounds of the model.                                                    *)
(***************************************************************************)
\* largest number of entries of the user registry file
MaxEntries == 1
\* largest number of flake children of the top node of a Dependencies tree
MaxTreeDeps == 2
\* largest number of requires entries of the top flake
MaxRequires == 2

(***************************************************************************)
(* FlakeRef: a variant (kind, name) plus the optional fields ref and rev.  *)
(* An absent optional is None.                                             *)
(***************************************************************************)
None == "none"

AliasNames == {"a", "b"}
PathNames == {"/p"}
RefNames == {"m", "dev"}
Revs == {"r1", "r2"}

Ref(kind, name, ref, rev) == [kind |-> kind, name |-> name, ref |-> ref, rev |-> rev]

isDirect(r) == r.kind # "alias"

isImmutable(r) == r.rev # None

baseRef(r) == [r EXCEPT !.ref = None, !.rev = None]

\* the textual form, as the sequence of its lexical tokens
to_string(r) ==
    LET slashRef == IF r.ref # None THEN <<"/", r.ref>> ELSE <<>>
        slashRev == IF r.rev # None THEN <<"/", r.rev>> ELSE <<>>
        paramRef == IF r.ref # None THEN <<"?ref=", r.ref>> ELSE <<>>
        paramRev == IF r.rev # None THEN <<"?rev=", r.rev>> ELSE <<>>
    IN  CASE r.kind = "alias"  -> <<r.name>> \o slashRef \o slashRev
          [] r.kind = "github" -> <<"github:", r.name>> \o slashRef \o slashRev
          [] r.kind = "git"    -> <<r.name>> \o paramRef \o paramRev
          [] OTHER             -> <<r.name>>

\* the value of the token that follows the separator sep in the token list s
RECURSIVE FieldAfter(_, _, _)
FieldAfter(s, seps, accept) ==
    IF Len(s) < 2 THEN None
    ELSE IF s[1] \in seps /\ s[2] \in accept THEN s[2]
    ELSE FieldAfter(Tail(Tail(s)), seps, accept)

\* FlakeRef(uri): the reference a textual form denotes
ParseFlakeRef(u) ==
    IF u[1] = "github:"
    THEN LET rest == SubSeq(u, 3, Len(u))
         IN  Ref("github", u[2], FieldAfter(rest, {"/"}, RefNames), FieldAfter(rest, {"/"}, Revs))
    ELSE LET rest == Tail(u)
         IN  IF u[1] \in AliasNames
             THEN Ref("alias", u[1], FieldAfter(rest, {"/"}, RefNames), FieldAfter(rest, {"/"}, Revs))
             ELSE IF u[1] \in PathNames
             THEN Ref("path", u[1], None, None)
             ELSE Ref("git", u[1], FieldAfter(rest, {"?ref="}, RefNames),
                      FieldAfter(rest, {"?rev="}, Revs))

(***************************************************************************)
(* Registries.  A registry is a finite map from FlakeRef to FlakeRef; the  *)
(* keys of a registry file are parsed like any other reference.            *)
(***************************************************************************)
EmptyRegistry == <<>>

\* keys and values the registry files of the model are drawn from
RegKeys ==
    { Ref("alias", "a", None, None), Ref("alias", "b", None, None),
      Ref("alias", "a", "m", None),  Ref("alias", "b", "m", None),
      Ref("github", "o/r", "m", None) }

RegVals ==
    { Ref("alias", "a", None, None), Ref("alias", "b", None, None),
      Ref("github", "o/r", None, None), Ref("github", "o/r", "dev", None),
      Ref("github", "o/r", None, "r1"), Ref("git", "u", None, None) }

RegistryFiles(n) ==
    UNION { [D -> RegVals] : D \in { S \in SUBSET RegKeys : Cardinality(S) <= n } }

\* references handed to lookupFlake
LookupInputs ==
    { Ref("alias", "a", None, None), Ref("alias", "b", None, None),
      Ref("alias", "a", "m", None),  Ref("alias", "a", None, "r2"),
      Ref("github", "o/r", None, None), Ref("github", "o/r", "m", None),
      Ref("git", "u", None, None), Ref("path", "/p", None, None) }

VARIABLES pureEval, userRegistry, localRegistry,
          input, flakeRef, pastSearches, pc, errorMsg, branch,
          sources, resolved, value, lockFile, disk, readResult

\* the variables of the registry files and of the evaluation mode
envVars == <<pureEval, userRegistry, localRegistry>>

\* the variables of a running lookupFlake / fetchFlake call
lookupVars == <<input, flakeRef, pastSearches, errorMsg, branch>>

\* the variables of resolution and of the lock file
lockVars == <<sources, resolved, value, lockFile, disk, readResult>>

vars == <<pureEval, userRegistry, localRegistry,
          input, flakeRef, pastSearches, pc, errorMsg, branch,
          sources, resolved, value, lockFile, disk, readResult>>

\* the values of the variables an operation has not set
NoSources == <<>>
NoDeps == [status |-> "none"]
NoValue == [status |-> "none"]
NoLockFile == [status |-> "none"]
NoFile == [t |-> "absent"]

\* the ordered registry list: global, user, local, flag
getFlakeRegistries(pure, user, local) ==
    IF pure
    THEN <<EmptyRegistry, EmptyRegistry, EmptyRegistry, EmptyRegistry>>
    ELSE <<EmptyRegistry, user, local, EmptyRegistry>>

\* FirstMatch with the scan keeping the last registry that has the key
FirstMatch_last(registries, key) ==
    IF \E i \in 1..Len(registries) : key \in DOMAIN registries[i]
    THEN CHOOSE i \in 1..Len(registries) :
            /\ key \in DOMAIN registries[i]
            /\ \A j \in (i + 1)..Len(registries) : key \notin DOMAIN registries[j]
    ELSE 0

\* index of the first registry of the list that has the key, 0 when none has
FirstMatch(registries, key) ==
    IF \E i \in 1..Len(registries) : key \in DOMAIN registries[i]
    THEN CHOOSE i \in 1..Len(registries) :
            /\ key \in DOMAIN registries[i]
            /\ \A j \in 1..(i - 1) : key \notin DOMAIN registries[j]
    ELSE 0

\* newRef of lookupFlake: the registry's reference under the overrides of an alias
NewRef(fr, mapped) ==
    IF fr.kind = "alias"
    THEN [mapped EXCEPT !.ref = IF fr.ref # None THEN fr.ref ELSE @,
                        !.rev = IF fr.rev # None THEN fr.rev ELSE @]
    ELSE mapped

\* the scan of pastSearches: <<thrown, errorMsg at the throw or at the end>>
RECURSIVE CycleScan(_, _, _)
CycleScan(past, newRef, msg) ==
    IF past = <<>> THEN [thrown |-> FALSE, msg |-> msg]
    ELSE LET msg1 == msg \o to_string(Head(past))
         IN  IF Head(past) = newRef
             THEN [thrown |-> TRUE, msg |-> msg1]
             ELSE CycleScan(Tail(past), newRef, msg1 \o <<" - ">>)

CycleCheck(past, newRef) ==
    CycleScan(past, newRef, <<"found cycle in flake registries: ">>)

InitLookup ==
    /\ pureEval \in BOOLEAN
    /\ userRegistry \in RegistryFiles(MaxEntries)
    /\ localRegistry \in RegistryFiles(1)
    /\ input \in LookupInputs
    /\ flakeRef = input
    /\ pastSearches = <<>>
    /\ pc = "lookup"
    /\ errorMsg = <<>>
    /\ branch = None
    /\ sources = NoSources
    /\ resolved = NoDeps
    /\ value = NoValue
    /\ lockFile = NoLockFile
    /\ disk = NoFile
    /\ readResult = NoLockFile

Registries == getFlakeRegistries(pureEval, userRegistry, localRegistry)

\* LookupRecurse with the recursive call handed the path without newRef
LookupRecurse_noPush ==
    /\ pc = "lookup"
    /\ FirstMatch(Registries, flakeRef) # 0
    /\ LET newRef == NewRef(flakeRef, Registries[FirstMatch(Registries, flakeRef)][flakeRef])
       IN  /\ ~CycleCheck(pastSearches, newRef).thrown
           /\ pastSearches' = pastSearches
           /\ flakeRef' = newRef
    /\ UNCHANGED <<envVars, lockVars, input, pc, errorMsg, branch>>

\* a registry has flakeRef, newRef was not visited: recurse on newRef
LookupRecurse ==
    /\ pc = "lookup"
    /\ FirstMatch(Registries, flakeRef) # 0
    /\ LET newRef == NewRef(flakeRef, Registries[FirstMatch(Registries, flakeRef)][flakeRef])
       IN  /\ ~CycleCheck(pastSearches, newRef).thrown
           /\ pastSearches' = Append(pastSearches, newRef)
           /\ flakeRef' = newRef
    /\ UNCHANGED <<envVars, lockVars, input, pc, errorMsg, branch>>

\* a registry has flakeRef, newRef was visited before: throw the cycle error
LookupCycle ==
    /\ pc = "lookup"
    /\ FirstMatch(Registries, flakeRef) # 0
    /\ LET newRef == NewRef(flakeRef, Registries[FirstMatch(Registries, flakeRef)][flakeRef])
       IN  /\ CycleCheck(pastSearches, newRef).thrown
           /\ errorMsg' = CycleCheck(pastSearches, newRef).msg
    /\ pc' = "cycle"
    /\ UNCHANGED <<envVars, lockVars, input, flakeRef, pastSearches, branch>>

\* LookupReturn without the isDirect test
LookupReturn_unchecked ==
    /\ pc = "lookup"
    /\ FirstMatch(Registries, flakeRef) = 0
    /\ pc' = "returned"
    /\ UNCHANGED <<envVars, lockVars, input, flakeRef, pastSearches, errorMsg, branch>>

\* no registry has flakeRef and it is direct: return it
LookupReturn ==
    /\ pc = "lookup"
    /\ FirstMatch(Registries, flakeRef) = 0
    /\ isDirect(flakeRef)
    /\ pc' = "returned"
    /\ UNCHANGED <<envVars, lockVars, input, flakeRef, pastSearches, errorMsg, branch>>

\* no registry has flakeRef and it is an alias: throw
LookupIndirect ==
    /\ pc = "lookup"
    /\ FirstMatch(Registries, flakeRef) = 0
    /\ ~isDirect(flakeRef)
    /\ pc' = "indirect"
    /\ errorMsg' = <<"indirect flake URI '">> \o to_string(flakeRef)
                       \o <<"' is the result of a lookup">>
    /\ UNCHANGED <<envVars, lockVars, input, flakeRef, pastSearches, branch>>

\* the variant dispatch of fetchFlake on the reference lookupFlake returned
FetchBranch(fRef) ==
    IF fRef.kind = "github" THEN "IsGitHub"
    ELSE IF fRef.kind = "git" THEN "IsGit"
    ELSE IF fRef.kind = "path" THEN "IsPath"
    ELSE "abort"

FetchDispatch ==
    /\ pc = "returned"
    /\ pc' = "dispatched"
    /\ branch' = FetchBranch(flakeRef)
    /\ UNCHANGED <<envVars, lockVars, input, flakeRef, pastSearches, errorMsg>>

NextLookup ==
    \/ LookupRecurse
    \/ LookupCycle
    \/ LookupReturn
    \/ LookupIndirect
    \/ FetchDispatch

SpecLookup == InitLookup /\ [][NextLookup]_vars

\* SpecLookup with the scheduling of a running call: a call in progress takes its next step
LiveLookup == InitLookup /\ [][NextLookup]_vars /\ WF_vars(NextLookup)

(***************************************************************************)
(* Properties of lookupFlake and of the dispatch of fetchFlake.            *)
(***************************************************************************)
\* s occurs in msg as a run of consecutive tokens
Contains(msg, s) ==
    \E k \in 0..(Len(msg) - Len(s)) : SubSeq(msg, k + 1, k + Len(s)) = s

\* C1: a cycle error's message contains the textual form of every reference of the
\* visited chain (for {A->B, B->A} and input A: of both A and B)
C1_CycleMessageNamesChain ==
    pc = "cycle" =>
        /\ Head(errorMsg) = "found cycle in flake registries: "
        /\ \A i \in 1..Len(pastSearches) : Contains(errorMsg, to_string(pastSearches[i]))

ChainOfAliases ==
    /\ input.kind = "alias"
    /\ \A i \in 1..(Len(pastSearches) - 1) : pastSearches[i].kind = "alias"

C6_AliasNeverFetched ==
    /\ pc = "returned" => isDirect(flakeRef)
    /\ pc = "dispatched" => branch \in {"IsGitHub", "IsGit", "IsPath"}

\* an alias went through the registries and its target was dispatched
C6_Witness ==
    /\ pc = "dispatched"
    /\ input.kind = "alias"
    /\ Len(pastSearches) >= 1
    /\ branch = "IsGitHub"

\* C9: every call of lookupFlake ends, by a return or by an error
C9_LookupTerminates == <>(pc # "lookup")

\* the chain came back to the starting reference, which carries an override, and the
\* call ended with the cycle error
C9_Witness ==
    /\ pc = "cycle"
    /\ input.ref # None
    /\ \E i \in 1..Len(pastSearches) : pastSearches[i] = input

(***************************************************************************)
(* JSON documents: a value is null, an object (a map from member names to  *)
(* values), a string or a number.                                          *)
(***************************************************************************)
JNull == [t |-> "null"]
JObj(f) == [t |-> "object", v |-> f]
JStr(x) == [t |-> "string", v |-> x]
JNum(n) == [t |-> "number", v |-> n]

\* json[key]: the member, null when the object has none
At(json, key) ==
    IF json.t = "object" /\ key \in DOMAIN json.v THEN json.v[key] ELSE JNull

\* the member names begin()..end() iterates over: none for null
Keys(json) == IF json.t = "object" THEN DOMAIN json.v ELSE {}

\* json.value(key, default)
ValueOr(json, key, default) ==
    IF json.t = "object" /\ key \in DOMAIN json.v THEN json.v[key] ELSE default

\* map.insert_or_assign(key, val)
InsertOrAssign(map, key, val) == (key :> val) @@ map

EmptyMap == <<>>

(***************************************************************************)
(* The lock file codec.                                                    *)
(***************************************************************************)
PurityError == [status |-> "purity"]

\* ReadNonFlakeEntries without the isImmutable test
ReadNonFlakeEntries_unchecked(json) ==
    LET nonFlakeRequires == At(json, "nonFlakeRequires")
        refOf(k) == ParseFlakeRef(ValueOr(nonFlakeRequires.v[k], "uri", JStr(<<"">>)).v)
    IN  [status |-> "ok", entries |-> [k \in Keys(nonFlakeRequires) |-> refOf(k)]]

\* the nonFlakeRequires loop of readFlakeEntry and readLockFile
ReadNonFlakeEntries(json) ==
    LET nonFlakeRequires == At(json, "nonFlakeRequires")
        refOf(k) == ParseFlakeRef(ValueOr(nonFlakeRequires.v[k], "uri", JStr(<<"">>)).v)
    IN  IF \E k \in Keys(nonFlakeRequires) : ~isImmutable(refOf(k))
        THEN PurityError
        ELSE [status |-> "ok", entries |-> [k \in Keys(nonFlakeRequires) |-> refOf(k)]]

RECURSIVE readFlakeEntry(_)
readFlakeEntry(json) ==
    LET ref == ParseFlakeRef(At(json, "uri").v)
    IN  IF ~isImmutable(ref) THEN PurityError
        ELSE LET nonFlake == ReadNonFlakeEntries(json)
             IN  IF nonFlake.status # "ok" THEN PurityError
                 ELSE LET requires == At(json, "requires")
                          sub == [k \in Keys(requires) |-> readFlakeEntry(requires.v[k])]
                      IN  IF \E k \in Keys(requires) : sub[k].status # "ok"
                          THEN PurityError
                          ELSE [status |-> "ok",
                                entry |-> [ref |-> ref,
                                           nonFlakeEntries |-> nonFlake.entries,
                                           flakeEntries |-> [k \in Keys(requires) |-> sub[k].entry]]]

\* file is the document at the path, NoFile when the path does not exist
readLockFile(file) ==
    IF file = NoFile
    THEN [status |-> "ok", lockFile |-> [nonFlakeEntries |-> EmptyMap, flakeEntries |-> EmptyMap]]
    ELSE IF ValueOr(file, "version", JNum(0)).v # 1
    THEN [status |-> "version"]
    ELSE LET nonFlake == ReadNonFlakeEntries(file)
         IN  IF nonFlake.status # "ok" THEN PurityError
             ELSE LET requires == At(file, "requires")
                      sub == [k \in Keys(requires) |-> readFlakeEntry(requires.v[k])]
                  IN  IF \E k \in Keys(requires) : sub[k].status # "ok"
                      THEN PurityError
                      ELSE [status |-> "ok",
                            lockFile |-> [nonFlakeEntries |-> nonFlake.entries,
                                          flakeEntries |-> [k \in Keys(requires) |-> sub[k].entry]]]

\* json["nonFlakeRequires"][alias]["uri"] = ref.to_string() for every entry
NonFlakeEntriesToJson(entries) ==
    JObj([k \in DOMAIN entries |-> JObj("uri" :> JStr(to_string(entries[k])))])

\* flakeEntryToJson without the loop over entry.flakeEntries
flakeEntryToJson_flat(entry) ==
    JObj(("uri" :> JStr(to_string(entry.ref)))
         @@ (IF DOMAIN entry.nonFlakeEntries # {}
             THEN "nonFlakeRequires" :> NonFlakeEntriesToJson(entry.nonFlakeEntries)
             ELSE EmptyMap))

RECURSIVE flakeEntryToJson(_)
flakeEntryToJson(entry) ==
    JObj(("uri" :> JStr(to_string(entry.ref)))
         @@ (IF DOMAIN entry.nonFlakeEntries # {}
             THEN "nonFlakeRequires" :> NonFlakeEntriesToJson(entry.nonFlakeEntries)
             ELSE EmptyMap)
         @@ (IF DOMAIN entry.flakeEntries # {}
             THEN "requires" :> JObj([k \in DOMAIN entry.flakeEntries |->
                                         flakeEntryToJson(entry.flakeEntries[k])])
             ELSE EmptyMap))

\* the document writeLockFile stores at the path
writeLockFile(lf) ==
    JObj(("version" :> JNum(1))
         @@ ("nonFlakeRequires" :> (IF DOMAIN lf.nonFlakeEntries # {}
                                    THEN NonFlakeEntriesToJson(lf.nonFlakeEntries)
                                    ELSE JNull))
         @@ (IF DOMAIN lf.flakeEntries # {}
             THEN "requires" :> JObj([k \in DOMAIN lf.flakeEntries |->
                                         flakeEntryToJson(lf.flakeEntries[k])])
             ELSE EmptyMap))

\* the loop over deps.nonFlakeDeps of dependenciesToFlakeEntry
RECURSIVE NonFlakeDepsToEntries(_, _)
NonFlakeDepsToEntries(nonFlakeDeps, acc) ==
    IF nonFlakeDeps = <<>> THEN acc
    ELSE NonFlakeDepsToEntries(Tail(nonFlakeDeps),
            InsertOrAssign(acc, Head(nonFlakeDeps).alias, Head(nonFlakeDeps).ref))

RECURSIVE dependenciesToFlakeEntry(_)
RECURSIVE FlakeDepsToEntries(_, _)
FlakeDepsToEntries(flakeDeps, acc) ==
    IF flakeDeps = <<>> THEN acc
    ELSE FlakeDepsToEntries(Tail(flakeDeps),
            InsertOrAssign(acc, Head(flakeDeps).flake.id, dependenciesToFlakeEntry(Head(flakeDeps))))

dependenciesToFlakeEntry(deps) ==
    [ref |-> deps.flake.ref,
     flakeEntries |-> FlakeDepsToEntries(deps.flakeDeps, EmptyMap),
     nonFlakeEntries |-> NonFlakeDepsToEntries(deps.nonFlakeDeps, EmptyMap)]

\* the LockFile getLockFile makes of a resolved tree
LockFileOf(deps) ==
    LET entry == dependenciesToFlakeEntry(deps)
    IN  [nonFlakeEntries |-> entry.nonFlakeEntries, flakeEntries |-> entry.flakeEntries]

(***************************************************************************)
(* The codec on its inputs: Dependencies trees of immutable references,    *)
(* and lock file documents found on disk.                                  *)
(***************************************************************************)
SeqsUpTo(S, n) == UNION { [1..k -> S] : k \in 0..n }

ImmutableRefs ==
    { ParseFlakeRef(<<"github:", "o/r", "/", "r1">>),
      ParseFlakeRef(<<"u", "?ref=", "m", "?rev=", "r2">>) }

FlakeIds == {"x", "y"}

NonFlakeLists == {<<>>} \cup { <<[alias |-> "n", ref |-> r]>> : r \in ImmutableRefs }

LeafTrees ==
    { [flake |-> [id |-> i, ref |-> r], flakeDeps |-> <<>>, nonFlakeDeps |-> <<>>] :
        i \in FlakeIds, r \in ImmutableRefs }

MidTrees ==
    { [flake |-> [id |-> i, ref |-> r], flakeDeps |-> fd, nonFlakeDeps |-> nf] :
        i \in FlakeIds, r \in ImmutableRefs,
        fd \in SeqsUpTo(LeafTrees, 1),
        nf \in {<<>>, <<[alias |-> "n", ref |-> ParseFlakeRef(<<"a", "/", "r1">>)]>>} }

TopTrees ==
    { [flake |-> [id |-> "top", ref |-> ParseFlakeRef(<<"file:///top", "?rev=", "r1">>)],
       flakeDeps |-> fd, nonFlakeDeps |-> nf] :
        fd \in SeqsUpTo(MidTrees, MaxTreeDeps), nf \in NonFlakeLists }

DocUris == { <<"github:", "o/r">>, <<"github:", "o/r", "/", "r1">> }

NonFlakeMembers ==
    {EmptyMap} \cup { "nonFlakeRequires" :> JObj("n" :> JObj("uri" :> JStr(u))) : u \in DocUris }

RequiresMembers(entries, ids) ==
    {EmptyMap} \cup
    { "requires" :> JObj(f) : f \in UNION { [D -> entries] : D \in (SUBSET ids) \ {{}} } }

LeafEntryDocs ==
    { JObj(("uri" :> JStr(u)) @@ nf) : u \in DocUris, nf \in NonFlakeMembers }

MidEntryDocs ==
    { JObj(("uri" :> JStr(u)) @@ nf @@ rq) :
        u \in DocUris, nf \in NonFlakeMembers, rq \in RequiresMembers(LeafEntryDocs, {"x"}) }

LockDocs ==
    { JObj(("version" :> JNum(v)) @@ nf @@ rq) :
        v \in {1, 2}, nf \in NonFlakeMembers, rq \in RequiresMembers(MidEntryDocs, FlakeIds) }

InitCodec ==
    /\ pureEval = FALSE
    /\ userRegistry = EmptyRegistry
    /\ localRegistry = EmptyRegistry
    /\ input = None
    /\ flakeRef = None
    /\ pastSearches = <<>>
    /\ errorMsg = <<>>
    /\ branch = None
    /\ sources = NoSources
    /\ value = NoValue
    /\ lockFile = NoLockFile
    /\ readResult = NoLockFile
    /\ pc = "start"
    /\ \/ /\ resolved \in { [status |-> "ok", deps |-> t] : t \in TopTrees }
          /\ disk = NoFile
       \/ /\ resolved = NoDeps
          /\ disk \in LockDocs \cup {NoFile}

\* the conversion of getLockFile applied to a resolved tree
DeriveLockFile ==
    /\ pc = "start"
    /\ resolved.status = "ok"
    /\ lockFile' = [status |-> "ok", lockFile |-> LockFileOf(resolved.deps)]
    /\ pc' = "derived"
    /\ UNCHANGED <<envVars, lookupVars, sources, resolved, value, disk, readResult>>

WriteLockFile ==
    /\ pc = "derived"
    /\ disk' = writeLockFile(lockFile.lockFile)
    /\ pc' = "written"
    /\ UNCHANGED <<envVars, lookupVars, sources, resolved, value, lockFile, readResult>>

ReadLockFile ==
    /\ \/ pc = "written"
       \/ pc = "start" /\ resolved.status = "none"
    /\ readResult' = readLockFile(disk)
    /\ pc' = "read"
    /\ UNCHANGED <<envVars, lookupVars, sources, resolved, value, lockFile, disk>>

NextCodec ==
    \/ DeriveLockFile
    \/ WriteLockFile
    \/ ReadLockFile

SpecCodec == InitCodec /\ [][NextCodec]_vars

\* the references of a lock file document, at every depth
NonFlakeDocRefs(json) ==
    { ParseFlakeRef(At(At(json, "nonFlakeRequires").v[k], "uri").v) :
        k \in Keys(At(json, "nonFlakeRequires")) }

RECURSIVE EntryDocRefs(_)
EntryDocRefs(json) ==
    {ParseFlakeRef(At(json, "uri").v)} \cup NonFlakeDocRefs(json)
        \cup UNION { EntryDocRefs(At(json, "requires").v[k]) : k \in Keys(At(json, "requires")) }

DocRefs(json) ==
    NonFlakeDocRefs(json)
        \cup UNION { EntryDocRefs(At(json, "requires").v[k]) : k \in Keys(At(json, "requires")) }

\* the references of the top level: non-flake entries and the flake entries' own uri
TopLevelDocRefs(json) ==
    NonFlakeDocRefs(json)
        \cup { ParseFlakeRef(At(At(json, "requires").v[k], "uri").v) : k \in Keys(At(json, "requires")) }

\* the references of a LockFile, at every depth
RECURSIVE EntryRefs(_)
EntryRefs(entry) ==
    {entry.ref} \cup { entry.nonFlakeEntries[k] : k \in DOMAIN entry.nonFlakeEntries }
        \cup UNION { EntryRefs(entry.flakeEntries[k]) : k \in DOMAIN entry.flakeEntries }

LockFileRefs(lf) ==
    { lf.nonFlakeEntries[k] : k \in DOMAIN lf.nonFlakeEntries }
        \cup UNION { EntryRefs(lf.flakeEntries[k]) : k \in DOMAIN lf.flakeEntries }

\* C3: reading a version 1 lock file fails with the purity error exactly when some
\* reference of it, at any depth, is mutable; a LockFile that was read has immutable
\* references only
C3_ReadRejectsMutable ==
    (pc = "read" /\ disk.t = "object" /\ ValueOr(disk, "version", JNum(0)).v = 1)
        => /\ readResult.status = "purity" <=> (\E r \in DocRefs(disk) : ~isImmutable(r))
           /\ readResult.status \in {"ok", "purity"}
           /\ readResult.status = "ok" => \A r \in LockFileRefs(readResult.lockFile) : isImmutable(r)

\* a document found on disk is rejected for a mutable reference below its top level
C3_Witness ==
    /\ pc = "read"
    /\ resolved.status = "none"
    /\ readResult.status = "purity"
    /\ disk.t = "object"
    /\ \A r \in TopLevelDocRefs(disk) : isImmutable(r)

\* C4: the LockFile derived from a tree of immutable references, written and read
\* back, is the derived LockFile
C4_RoundTrip ==
    (pc = "read" /\ resolved.status = "ok")
        => /\ readResult.status = "ok"
           /\ readResult.lockFile = lockFile.lockFile

\* a round trip of nested flake entries, with and without non-flake entries
C4_Witness ==
    /\ pc = "read"
    /\ resolved.status = "ok"
    /\ readResult.status = "ok"
    /\ DOMAIN readResult.lockFile.nonFlakeEntries = {}
    /\ \E k \in DOMAIN readResult.lockFile.flakeEntries :
          LET e == readResult.lockFile.flakeEntries[k]
          IN  /\ DOMAIN e.nonFlakeEntries # {}
              /\ DOMAIN e.flakeEntries # {}
    /\ \E k \in DOMAIN readResult.lockFile.flakeEntries :
          DOMAIN readResult.lockFile.flakeEntries[k].flakeEntries = {}

(***************************************************************************)
(* Fetching and loading.  env is the evaluation mode, the registry files   *)
(* and the sources the fetchers reach: sources[name] is the repository a   *)
(* direct reference of that name denotes.                                  *)
(***************************************************************************)
RECURSIVE lookupFlake(_, _, _)
lookupFlake(fr, registries, past) ==
    LET i == FirstMatch(registries, fr)
    IN  IF i # 0
        THEN LET newRef == NewRef(fr, registries[i][fr])
                 check == CycleCheck(past, newRef)
             IN  IF check.thrown
                 THEN [status |-> "cycle", msg |-> check.msg]
                 ELSE lookupFlake(newRef, registries, Append(past, newRef))
        ELSE IF ~isDirect(fr)
             THEN [status |-> "indirect"]
             ELSE [status |-> "ok", ref |-> fr]

\* the placeholder of the log for a reference lookupFlake did not return
NoRef == Ref("none", "none", None, None)

\* fetchFlake from the outcome l of its lookupFlake call on: the purity test, the
\* dispatch on the variant and the fetch
FetchResolved(env, l, impureIsAllowed) ==
    LET fetched(fRef, revCount) ==
            [status |-> "ok", fRef |-> fRef, impureIsAllowed |-> impureIsAllowed,
             storePath |-> fRef.name,
             rev |-> IF fRef.rev # None THEN fRef.rev ELSE env.sources[fRef.name].head,
             revCount |-> revCount]
        failed(fRef, why) ==
            [status |-> why, fRef |-> fRef, impureIsAllowed |-> impureIsAllowed]
    IN  IF l.status # "ok" THEN failed(NoRef, l.status)
        ELSE CASE FetchBranch(l.ref) = "IsGitHub" ->
                    IF env.pureEval /\ ~impureIsAllowed /\ ~isImmutable(l.ref)
                    THEN failed(l.ref, "purity")
                    ELSE IF l.ref.name \notin DOMAIN env.sources
                    THEN failed(l.ref, "download")
                    ELSE fetched(l.ref, None)
               [] FetchBranch(l.ref) = "IsGit" ->
                    IF l.ref.name \notin DOMAIN env.sources
                    THEN failed(l.ref, "exportGit")
                    ELSE fetched(l.ref, env.sources[l.ref.name].revCount)
               [] FetchBranch(l.ref) = "IsPath" ->
                    IF l.ref.name \notin DOMAIN env.sources
                    THEN failed(l.ref, "notGit")
                    ELSE fetched(l.ref, env.sources[l.ref.name].revCount)
               [] OTHER -> failed(l.ref, "abort")

\* the outcome of fetchFlake, with the flag it ran under
fetchFlake(env, fr, impureIsAllowed) ==
    FetchResolved(env,
                  lookupFlake(fr, getFlakeRegistries(env.pureEval, env.user, env.local), <<>>),
                  impureIsAllowed)

\* the ref of a Flake or NonFlake: the reference asked for, a GitHub one on the fetched rev
FetchedRef(fr, sourceInfo) ==
    IF fr.kind = "github" /\ sourceInfo.rev # None
    THEN ParseFlakeRef(to_string(baseRef(fr)) \o <<"/", sourceInfo.rev>>)
    ELSE fr

\* the flag getFlake hands to fetchFlake: the call names no third argument
GetFlakeFetchFlag(impureIsAllowed) == FALSE

\* one entry of the log of fetches
FetchLog(by, fr, sourceInfo) ==
    [by |-> by, flakeRef |-> fr, fRef |-> sourceInfo.fRef,
     impureIsAllowed |-> sourceInfo.impureIsAllowed, status |-> sourceInfo.status]

\* getFlake from the outcome of its fetchFlake call on; info is the value of flake.nix
\* and lock the outcome of reading flake.lock
LoadFlake(fr, sourceInfo, info, lock) ==
    IF sourceInfo.status # "ok"
    THEN [status |-> sourceInfo.status, fetch |-> FetchLog("getFlake", fr, sourceInfo)]
    ELSE IF "name" \notin DOMAIN info
    THEN [status |-> "noName", fetch |-> FetchLog("getFlake", fr, sourceInfo)]
    ELSE IF "provides" \notin DOMAIN info
    THEN [status |-> "noProvides", fetch |-> FetchLog("getFlake", fr, sourceInfo)]
    ELSE IF lock.status # "ok"
    THEN [status |-> "lockFile", fetch |-> FetchLog("getFlake", fr, sourceInfo)]
    ELSE [status |-> "ok", fetch |-> FetchLog("getFlake", fr, sourceInfo),
          flake |-> [id |-> info.name,
                     description |-> info.description,
                     ref |-> FetchedRef(fr, sourceInfo),
                     path |-> sourceInfo.storePath,
                     revCount |-> sourceInfo.revCount,
                     requires |-> [i \in DOMAIN info.requires |-> ParseFlakeRef(info.requires[i])],
                     nonFlakeRequires |-> [k \in DOMAIN info.nonFlakeRequires |->
                                              ParseFlakeRef(info.nonFlakeRequires[k])],
                     vProvides |-> info.provides,
                     lockFile |-> lock.lockFile]]

\* what the evaluation of getFlake reads at the fetched store path
FlakeNix(env, sourceInfo) ==
    IF sourceInfo.status = "ok" THEN env.sources[sourceInfo.storePath].info ELSE EmptyMap

FlakeLock(env, sourceInfo) ==
    IF sourceInfo.status = "ok" THEN env.sources[sourceInfo.storePath].lock ELSE NoFile

FetchAndLoad(env, fr, sourceInfo) ==
    LoadFlake(fr, sourceInfo, FlakeNix(env, sourceInfo), readLockFile(FlakeLock(env, sourceInfo)))

getFlake(env, fr, impureIsAllowed) ==
    FetchAndLoad(env, fr, fetchFlake(env, fr, GetFlakeFetchFlag(impureIsAllowed)))

\* getNonFlake from the outcome of its fetchFlake call on
LoadNonFlake(fr, alias, sourceInfo) ==
    IF sourceInfo.status # "ok"
    THEN [status |-> sourceInfo.status, fetch |-> FetchLog("getNonFlake", fr, sourceInfo)]
    ELSE [status |-> "ok", fetch |-> FetchLog("getNonFlake", fr, sourceInfo),
          nonFlake |-> [ref |-> FetchedRef(fr, sourceInfo),
                        path |-> sourceInfo.storePath,
                        alias |-> alias]]

getNonFlake(env, fr, alias) == LoadNonFlake(fr, alias, fetchFlake(env, fr, FALSE))

(***************************************************************************)
(* resolveFlake.  A failed fetch ends the resolution; log lists the        *)
(* fetches made, in order.                                                 *)
(***************************************************************************)
\* the aliases of nonFlakeRequires in the order the map iterates them
AliasOrder == <<"n1", "n2">>

KeysInOrder(map) == SelectSeq(AliasOrder, LAMBDA k : k \in DOMAIN map)

\* the loop over flake.nonFlakeRequires: nonFlakes[i] is the outcome of the i-th
\* getNonFlake call; the first failed call ends the loop
RECURSIVE ResolveNonFlakes(_, _)
ResolveNonFlakes(nonFlakes, acc) ==
    IF nonFlakes = <<>> THEN acc
    ELSE IF Head(nonFlakes).status # "ok"
    THEN [status |-> Head(nonFlakes).status, log |-> Append(acc.log, Head(nonFlakes).fetch)]
    ELSE ResolveNonFlakes(Tail(nonFlakes),
            [status |-> "ok",
             nonFlakeDeps |-> Append(acc.nonFlakeDeps, Head(nonFlakes).nonFlake),
             log |-> Append(acc.log, Head(nonFlakes).fetch)])

RECURSIVE ResolveRequires(_, _)

\* ResolveRequires with each subtree put in front of deps.flakeDeps
ResolveRequires_front(subtrees, acc) ==
    IF subtrees = <<>> THEN acc
    ELSE IF Head(subtrees).status # "ok"
    THEN [status |-> Head(subtrees).status, log |-> acc.log \o Head(subtrees).log]
    ELSE ResolveRequires(Tail(subtrees),
            [status |-> "ok",
             flakeDeps |-> <<Head(subtrees).deps>> \o acc.flakeDeps,
             log |-> acc.log \o Head(subtrees).log])

\* the loop over flake.requires: subtrees[i] is the outcome of the recursive call for
\* requires[i]; the first failed call ends the loop
ResolveRequires(subtrees, acc) ==
    IF subtrees = <<>> THEN acc
    ELSE IF Head(subtrees).status # "ok"
    THEN [status |-> Head(subtrees).status, log |-> acc.log \o Head(subtrees).log]
    ELSE ResolveRequires(Tail(subtrees),
            [status |-> "ok",
             flakeDeps |-> Append(acc.flakeDeps, Head(subtrees).deps),
             log |-> acc.log \o Head(subtrees).log])

\* the Dependencies of a loaded flake g, its non-flake children nf and flake children fd
MakeDeps(g, nf, fd) ==
    IF fd.status # "ok" THEN fd
    ELSE [status |-> "ok", log |-> fd.log,
          deps |-> [flake |-> g.flake, flakeDeps |-> fd.flakeDeps,
                    nonFlakeDeps |-> nf.nonFlakeDeps]]

RECURSIVE resolveFlake(_, _, _, _)

\* resolveFlake after the non-flake loop
ResolveFlakeDeps(env, g, nf) ==
    IF nf.status # "ok" THEN nf
    ELSE MakeDeps(g, nf,
            ResolveRequires([i \in DOMAIN g.flake.requires |->
                                resolveFlake(env, g.flake.requires[i], FALSE,
                                             env.isTopFlakeDefault)],
                            [status |-> "ok", flakeDeps |-> <<>>, log |-> nf.log]))

\* resolveFlake after getFlake
ResolveLoaded(env, g) ==
    IF g.status # "ok" THEN [status |-> g.status, log |-> <<g.fetch>>]
    ELSE ResolveFlakeDeps(env, g,
            ResolveNonFlakes([i \in DOMAIN KeysInOrder(g.flake.nonFlakeRequires) |->
                                 getNonFlake(env,
                                     g.flake.nonFlakeRequires[KeysInOrder(g.flake.nonFlakeRequires)[i]],
                                     KeysInOrder(g.flake.nonFlakeRequires)[i])],
                             [status |-> "ok", nonFlakeDeps |-> <<>>, log |-> <<g.fetch>>]))

resolveFlake(env, topRef, impureTopRef, isTopFlake) ==
    ResolveLoaded(env, getFlake(env, topRef, isTopFlake /\ impureTopRef))

(***************************************************************************)
(* makeFlakeValue and updateLockFile.                                      *)
(***************************************************************************)
\* the attributes of a value as a bag: sort() orders them by symbol
BagOfSeq(q) ==
    [a \in { q[i] : i \in DOMAIN q } |-> Cardinality({ i \in DOMAIN q : q[i] = a })]

\* the attribute the loop of makeFlakeValue builds for one element of deps.flakeDeps
FlakeAttr(flake) ==
    [name |-> flake.id, populated |-> TRUE,
     description |-> flake.description,
     outPath |-> flake.path,
     revCount |-> flake.revCount,
     provides |-> [fn |-> flake.vProvides, arg |-> "vResult"]]

\* an attribute that was allocated and never assigned
EmptyAttr(name) == [name |-> name, populated |-> FALSE]

\* makeFlakeValue from the outcome r of its resolveFlake call on
FlakeValue(r) ==
    IF r.status # "ok" THEN [status |-> r.status]
    ELSE [status |-> "ok",
          capacity |-> Len(r.deps.flakeDeps),
          attrs |-> BagOfSeq(<<EmptyAttr(r.deps.flake.id)>>
                                \o [i \in DOMAIN r.deps.flakeDeps |->
                                       FlakeAttr(r.deps.flakeDeps[i].flake)]),
          vTop |-> EmptyAttr(r.deps.flake.id)]

\* getLockFile from the outcome r of its resolveFlake call on
LockFileOfResolved(r) ==
    IF r.status # "ok" THEN [status |-> r.status]
    ELSE [status |-> "ok", lockFile |-> LockFileOf(r.deps)]

(***************************************************************************)
(* The repositories of the model: the top flake (a local repository, also  *)
(* hosted as o/top) requires flakes among o/mid, u, /p and the aliases;    *)
(* o/mid requires flakes among o/r, u and the alias b; o/r, u and /p       *)
(* require nothing.                                                        *)
(***************************************************************************)
TopPath == "/top"

TopUri == "file://" \o TopPath

Source(name, requires, nonFlakeRequires, revCount) ==
    [info |-> [name |-> name, description |-> "about " \o name,
               requires |-> requires, nonFlakeRequires |-> nonFlakeRequires,
               provides |-> "provides of " \o name],
     head |-> "r2", revCount |-> revCount, lock |-> NoFile]

TopRequiresUris ==
    { <<"github:", "o/mid">>, <<"github:", "o/mid", "/", "r1">>, <<"a">>,
      <<"u", "?ref=", "m">>, <<"/p">> }

MidRequiresUris == { <<"github:", "o/r">>, <<"b">>, <<"u", "?rev=", "r1">> }

NonFlakeUris == { <<"github:", "o/r">>, <<"github:", "o/r", "/", "r1">> }

NonFlakeRequiresOf(aliases) ==
    UNION { [D -> NonFlakeUris] : D \in SUBSET aliases }

TopNonFlakeRequires ==
    { f \in NonFlakeRequiresOf({"n1", "n2"}) :
        "n2" \in DOMAIN f => ("n1" \in DOMAIN f /\ isImmutable(ParseFlakeRef(f["n1"]))) }

MidNonFlakeRequires == { EmptyMap, "n1" :> <<"github:", "o/r">> }

Worlds ==
    { LET top == Source("top", treq, tnf, 7)
      IN  (TopUri :> top) @@ ("o/top" :> [top EXCEPT !.revCount = None])
          @@ ("o/mid" :> Source("mid", mreq, mnf, None))
          @@ ("o/r" :> Source("leaf", <<>>, EmptyMap, None))
          @@ ("u" :> Source("leafu", <<>>, EmptyMap, 3))
          @@ ("/p" :> Source("p", <<>>, EmptyMap, 1)) :
        treq \in SeqsUpTo(TopRequiresUris, MaxRequires),
        tnf \in TopNonFlakeRequires,
        mreq \in SeqsUpTo(MidRequiresUris, 1),
        mnf \in MidNonFlakeRequires }

\* the user registry files of the resolutions
ResolveRegistries ==
    { EmptyRegistry,
      (Ref("alias", "a", None, None) :> Ref("github", "o/mid", None, "r1"))
          @@ (Ref("alias", "b", None, None) :> Ref("github", "o/r", None, None)),
      (Ref("alias", "a", None, None) :> Ref("alias", "b", None, None))
          @@ (Ref("alias", "b", None, None) :> Ref("git", "u", None, None)) }

\* the references makeFlakeValue is called with
TopRefs ==
    { ParseFlakeRef(<<TopUri>>), ParseFlakeRef(<<"github:", "o/top">>),
      ParseFlakeRef(<<"github:", "o/top", "/", "r1">>) }

InitResolve ==
    /\ pureEval \in BOOLEAN
    /\ userRegistry \in ResolveRegistries
    /\ localRegistry = EmptyRegistry
    /\ input = None
    /\ flakeRef = None
    /\ pastSearches = <<>>
    /\ errorMsg = <<>>
    /\ branch = None
    /\ sources \in Worlds
    /\ resolved = NoDeps
    /\ value = NoValue
    /\ lockFile = NoLockFile
    /\ disk = NoFile
    /\ readResult = NoLockFile
    /\ pc = "start"

Env(isTopFlakeDefault) ==
    [pureEval |-> pureEval, user |-> userRegistry, local |-> localRegistry,
     sources |-> sources, isTopFlakeDefault |-> isTopFlakeDefault]

\* a call of makeFlakeValue; resolved keeps the tree and the fetches of its resolveFlake
MakeFlakeValue ==
    /\ pc = "start"
    /\ \E topRef \in TopRefs, impureTopRef \in BOOLEAN, isTopFlakeDefault \in BOOLEAN :
         resolved' = [call |-> [topRef |-> topRef, impureTopRef |-> impureTopRef]]
                        @@ resolveFlake(Env(isTopFlakeDefault), topRef, impureTopRef,
                                        isTopFlakeDefault)
    /\ value' = FlakeValue(resolved')
    /\ pc' = "value"
    /\ UNCHANGED <<envVars, lookupVars, sources, lockFile, disk, readResult>>

\* a call of updateLockFile on the local repository of the top flake: a reference of
\* another variant than a version control URL is a usage error
UpdateLockFile ==
    /\ pc = "start"
    /\ \E isTopFlakeDefault \in BOOLEAN :
         resolved' = [call |-> [topRef |-> ParseFlakeRef(<<"file://" \o TopPath>>),
                                impureTopRef |-> TRUE]]
                        @@ (IF ParseFlakeRef(<<"file://" \o TopPath>>).kind = "git"
                            THEN resolveFlake(Env(isTopFlakeDefault),
                                              ParseFlakeRef(<<"file://" \o TopPath>>), TRUE,
                                              isTopFlakeDefault)
                            ELSE [status |-> "usage", log |-> <<>>])
    /\ lockFile' = LockFileOfResolved(resolved')
    /\ disk' = IF lockFile'.status = "ok" THEN writeLockFile(lockFile'.lockFile) ELSE disk
    /\ pc' = IF lockFile'.status = "ok" THEN "written" ELSE "failed"
    /\ UNCHANGED <<envVars, lookupVars, sources, value, readResult>>

NextResolve ==
    \/ MakeFlakeValue
    \/ UpdateLockFile
    \/ ReadLockFile

SpecResolve == InitResolve /\ [][NextResolve]_vars

(***************************************************************************)
(* Properties of resolution, projection and locking.                       *)
(***************************************************************************)
MutableGitHub(fRef) == fRef.kind = "github" /\ ~isImmutable(fRef)

\* C2: in pure mode with impureTopRef set, the fetch of the top flake (the first of
\* the log) passes for a mutable GitHub reference, and every other fetch runs with
\* impurity disallowed and fails with the purity error for a mutable GitHub reference
C2_ImpurityOnlyForTop ==
    (pc \in {"value", "written", "failed"} /\ pureEval /\ resolved.call.impureTopRef)
        => \A i \in DOMAIN resolved.log :
              LET f == resolved.log[i]
              IN  IF i = 1
                  THEN MutableGitHub(f.fRef) => f.status # "purity"
                  ELSE /\ ~f.impureIsAllowed
                       /\ MutableGitHub(f.fRef) => f.status = "purity"

\* the flakes of a Dependencies tree: the top one and every transitive dependency
RECURSIVE FlakesOf(_)
FlakesOf(deps) ==
    {deps.flake} \cup UNION { FlakesOf(deps.flakeDeps[i]) : i \in DOMAIN deps.flakeDeps }

\* C7: the value of makeFlakeValue has a populated attribute for every flake of the
\* resolved tree, named by the flake's id
C7_ValueHasEveryFlake ==
    (pc = "value" /\ value.status = "ok")
        => \A flake \in FlakesOf(resolved.deps) : FlakeAttr(flake) \in DOMAIN value.attrs

SameSource(r1, r2) == r1.kind = r2.kind /\ r1.name = r2.name

\* every node has one flake child per requires entry, in order, and one non-flake
\* child per nonFlakeRequires entry, under its alias
RECURSIVE TreeShape(_)
TreeShape(deps) ==
    /\ Len(deps.flakeDeps) = Len(deps.flake.requires)
    /\ \A i \in DOMAIN deps.flakeDeps :
          /\ SameSource(deps.flakeDeps[i].flake.ref, deps.flake.requires[i])
          /\ TreeShape(deps.flakeDeps[i])
    /\ Len(deps.nonFlakeDeps) = Cardinality(DOMAIN deps.flake.nonFlakeRequires)
    /\ \A k \in DOMAIN deps.flake.nonFlakeRequires :
          \E i \in DOMAIN deps.nonFlakeDeps :
             /\ deps.nonFlakeDeps[i].alias = k
             /\ SameSource(deps.nonFlakeDeps[i].ref, deps.flake.nonFlakeRequires[k])

\* C8: a tree resolveFlake returns has the shape its flakes declare, and the flake of
\* every node declares what its repository declares
C8_TreeShape ==
    resolved.status = "ok"
        => /\ TreeShape(resolved.deps)
           /\ \A flake \in FlakesOf(resolved.deps) :
                 /\ Len(flake.requires) = Len(sources[flake.path].info.requires)
                 /\ DOMAIN flake.nonFlakeRequires = DOMAIN sources[flake.path].info.nonFlakeRequires

\* two different requires entries and one nonFlakeRequires entry at the top, and a
\* child with a requirement of its own
C8_Witness ==
    /\ resolved.status = "ok"
    /\ Len(resolved.deps.flake.requires) = 2
    /\ ~SameSource(resolved.deps.flake.requires[1], resolved.deps.flake.requires[2])
    /\ DOMAIN resolved.deps.flake.nonFlakeRequires = {"n1"}
    /\ \E i \in DOMAIN resolved.deps.flakeDeps : Len(resolved.deps.flakeDeps[i].flakeDeps) = 1

\* C10: every reference of the LockFile updateLockFile derives is direct and
\* immutable, and readLockFile accepts the file it wrote
C10_LockFileImmutable ==
    /\ (pc \in {"written", "read"} /\ lockFile.status = "ok")
          => \A r \in LockFileRefs(lockFile.lockFile) : isDirect(r) /\ isImmutable(r)
    /\ (pc = "read" /\ lockFile.status = "ok") => readResult.status = "ok"

====
